---- MODULE Spec2Model ----
(***************************************************************************)
(* Model of the Pokeball Plus mouse driver (pokeball_mouse_working.py):    *)
(* the run() coroutine (connect, calibrate, reconnect loop), the BLE       *)
(* notification subscription, the steady-state notification_handler and    *)
(* the calibration handler, and the writes to the virtual input device;    *)
(* of the calibration tool (tools/pokeball_calibrate.py) and of the        *)
(* dashboard's packet comparison (tools/pokeball_dashboard.py).  Each of   *)
(* the three is a program of its own: a behaviour runs one of them, the    *)
(* other two stay "off".                                                   *)
(***************************************************************************)
EXTENDS Integers, Sequences, FiniteSets, TLC

\* ---------------------------------------------------------------- bounds
MaxPackets == 9       \* packets delivered to the steady-state handler
MaxSamples == 3       \* samples collected by one calibration window
MaxDisconnects == 1   \* link losses during one run
MaxPacketsB == 9      \* packets delivered in the byte-range specifications
MaxPacketsM == 18     \* packets delivered in the button-sequence specification
MaxBudget == 5        \* largest sample budget of the calibration tool
MaxPacketsD == 4      \* packets delivered to the dashboard
MaxRefreshes == 3     \* calls of display_data

\* ------------------------------------------------------ program constants
x_speed == 20
y_sensitivity_num == 2      \* y_sensitivity = 0.4 = 2/5
y_sensitivity_den == 5
Y_CENTER_INIT == 118
Y_DEADZONE_INIT == 15
DECIMATION == 3
MIN_LEN == 5
TOOL_MIN_LEN == 4
DEADZONE_MARGIN == 5

\* ------------------------------------------------------------ input sets
Byte == 0..255
ButtonBytes == {0, 1, 2, 3, 4}
ShortPackets == {<<>>, <<0, 3, 0, 9>>}
FullPackets == {<<0, 0, 0, 5, 118>>, <<0, 1, 0, 3, 118>>, <<0, 3, 0, 9, 140>>,
                <<0, 2, 0, 5, 90>>, <<0, 4, 0, 26, 118>>}
Packets == ShortPackets \cup FullPackets
PacketsX == {<<0, 0, 0, x, 118>> : x \in Byte}
PacketsY == {<<0, 0, 0, 5, y>> : y \in Byte}
PacketsMask == {<<0, b, 0, 5, 118>> : b \in Byte}
PacketsM == {<<0, b, 0, 5, 118>> : b \in ButtonBytes}
CentersY == {0, 15, 116, 118, 255}
ScriptMasks == <<0, 1, 1, 3, 3, 0>>
IdlePacket == <<0, 0, 0, 5, 118>>
DashPackets == {<<>>, <<0, 1, 50>>, <<0, 0, 50, 100, 118>>,
                <<0, 1, 50, 100, 118>>, <<0, 0, 57, 100, 140>>}
ToolPackets == {<<0, 0, 50, 100>>, <<0, 0, 50, 102>>, <<0, 0, 50, 98>>,
                <<0, 0, 50, 104>>, <<0, 0, 50, 96>>, <<0, 0, 57, 101>>,
                <<0, 0, 50>>}

VARIABLES
  pc,                 \* position of run()
  connected,          \* client.is_connected
  subscribed,         \* callbacks registered on INPUT_UUID
  counter,            \* self.counter
  last_button_state,  \* self.last_button_state
  y_center,           \* self.y_center
  y_deadzone,         \* self.y_deadzone
  y_samples,          \* calibrate_y_axis: y_samples (kept after the return)
  x_samples,          \* calibrate_y_axis: x_samples
  btn_left,           \* last value written for BTN_LEFT
  btn_right,          \* last value written for BTN_RIGHT
  emitted,            \* device writes of the last notification_handler call
  x_direction,        \* handler local of the last processed frame
  x_move,             \* handler local of the last processed frame
  y_move,             \* handler local of the last processed frame
  pkt,                \* last packet given to notification_handler
  delivered,          \* number of packets given to notification_handler
  script_pos,         \* length of the prefix of ScriptMasks the processed
                      \* masks have followed so far, -1 once they left it
  disconnects,        \* number of link losses so far
  err,                \* an exception escaped notification_handler
  cal_err,            \* an exception escaped the statistics of calibrate_y_axis
  last_frame_mask,    \* packet[1] of the last decoded frame
  \* the calibration tool (PokeballCalibrator)
  t_pc,               \* position of calibrate()
  max_samples,        \* self.max_samples
  x_values,           \* self.x_values
  y_values,           \* self.y_values
  sample_count,       \* self.sample_count
  t_result,           \* <<center_x, center_y, deadzone>> once computed
  t_err,              \* an exception escaped the statistics of calibrate()
  t_pkt,              \* the packet of the tool handler's last call
  \* the dashboard (InteractiveAnalyzer); None is <<>>, a packet p is <<p>>
  d_pc,               \* position of run()
  current_data,       \* self.current_data
  last_data,          \* self.last_data
  baseline_data,      \* self.baseline_data
  packet_count,       \* self.packet_count
  d_first,            \* the first packet ever delivered
  d_before,           \* the packet delivered right before current_data
  d_refreshes         \* number of calls of display_data

driverVars == <<pc, connected, subscribed, counter, last_button_state,
                y_center, y_deadzone, y_samples, x_samples, btn_left,
                btn_right, emitted, x_direction, x_move, y_move, pkt,
                delivered, script_pos, disconnects, err, cal_err,
                last_frame_mask>>
toolVars == <<t_pc, max_samples, x_values, y_values, sample_count, t_result,
              t_err, t_pkt>>
dashVars == <<d_pc, current_data, last_data, baseline_data, packet_count,
              d_first, d_before, d_refreshes>>

vars == <<driverVars, toolVars, dashVars>>

steadyVars == <<counter, last_button_state, btn_left, btn_right, emitted,
                x_direction, x_move, y_move, pkt, delivered, script_pos, err,
                last_frame_mask>>
calVars == <<y_samples, x_samples>>

\* --------------------------------------------------------------- helpers
RECURSIVE BitAnd(_, _)
BitAnd(a, b) ==
  IF a = 0 \/ b = 0 THEN 0
  ELSE (a % 2) * (b % 2) + 2 * BitAnd(a \div 2, b \div 2)

Abs(n) == IF n < 0 THEN -n ELSE n

IntScaleFloor(v) == (v * y_sensitivity_num) \div y_sensitivity_den

\* int(v * 0.4): Python's int() truncates toward zero
IntScale(v) ==
  IF v >= 0 THEN (v * y_sensitivity_num) \div y_sensitivity_den
  ELSE -(((-v) * y_sensitivity_num) \div y_sensitivity_den)

RECURSIVE Sum(_)
Sum(s) == IF s = <<>> THEN 0 ELSE Head(s) + Sum(Tail(s))

get_x_direction_edge_center(nibble_value) ==
  IF nibble_value \in {2, 3} THEN <<"LEFT", -x_speed>>
  ELSE IF nibble_value \in 4..7 THEN <<"CENTER", 0>>
  ELSE IF nibble_value >= 8 THEN <<"RIGHT", x_speed>>
  ELSE <<"CENTER", 0>>

get_x_direction(nibble_value) ==
  IF nibble_value \in {2, 3} THEN <<"LEFT", -x_speed>>
  ELSE IF nibble_value \in 4..7 THEN <<"CENTER", 0>>
  ELSE IF nibble_value >= 8 THEN <<"RIGHT", x_speed>>
  ELSE IF nibble_value < 2 THEN <<"LEFT", -x_speed>>
  ELSE <<"CENTER", 0>>

\* data[i] of a bytearray (0-based); -1 stands for IndexError
At(data, i) == IF i < Len(data) THEN data[i + 1] ELSE -1

SYN == <<"EV_SYN", "SYN_REPORT", 0>>

YOffset(y_raw) ==
  LET y_offset == y_raw - y_center
  IN IF Abs(y_offset) < y_deadzone THEN 0 ELSE y_offset

MotionWritesBothAxes(xm, ym) ==
  IF xm # 0 \/ ym # 0
  THEN <<<<"EV_REL", "REL_X", xm>>, <<"EV_REL", "REL_Y", ym>>, SYN>>
  ELSE <<>>

MotionWrites(xm, ym) ==
  IF xm # 0 \/ ym # 0
  THEN (IF xm # 0 THEN <<<<"EV_REL", "REL_X", xm>>>> ELSE <<>>)
       \o (IF ym # 0 THEN <<<<"EV_REL", "REL_Y", ym>>>> ELSE <<>>)
       \o <<SYN>>
  ELSE <<>>

KeyValueAnyBit(buttons, bit) == IF buttons # 0 THEN 1 ELSE 0

\* 1 if (buttons & bit) else 0
KeyValue(buttons, bit) == IF BitAnd(buttons, bit) # 0 THEN 1 ELSE 0

ChangedVsPrevPacket(buttons) == buttons # At(pkt, 1)

ChangedLowBits(buttons) == buttons % 4 # last_button_state % 4

ChangedAlways(buttons) == TRUE

Changed(buttons) == buttons # last_button_state

ButtonWritesRightFirst(buttons) ==
  IF Changed(buttons)
  THEN << <<"EV_KEY", "BTN_RIGHT", KeyValue(buttons, 2)>>,
          <<"EV_KEY", "BTN_LEFT", KeyValue(buttons, 1)>>,
          SYN >>
  ELSE <<>>

ButtonWritesPerBit(buttons) ==
  LET l == IF KeyValue(buttons, 1) # KeyValue(last_button_state, 1)
           THEN <<<<"EV_KEY", "BTN_LEFT", KeyValue(buttons, 1)>>>> ELSE <<>>
      r == IF KeyValue(buttons, 2) # KeyValue(last_button_state, 2)
           THEN <<<<"EV_KEY", "BTN_RIGHT", KeyValue(buttons, 2)>>>> ELSE <<>>
  IN IF l \o r # <<>> THEN l \o r \o <<SYN>> ELSE <<>>

ButtonWrites(buttons) ==
  IF Changed(buttons)
  THEN << <<"EV_KEY", "BTN_LEFT", KeyValue(buttons, 1)>>,
          <<"EV_KEY", "BTN_RIGHT", KeyValue(buttons, 2)>>,
          SYN >>
  ELSE <<>>

LengthOkFour(data) == Len(data) >= MIN_LEN - 1

LengthOk(data) == Len(data) >= MIN_LEN

EligibleOffByOne(c) == c % DECIMATION = 1

Eligible(c) == c % DECIMATION = 0

\* the processed masks follow ScriptMasks as long as each one is the next
\* mask of the script
NextScriptPos(buttons) ==
  IF script_pos >= 0 /\ script_pos < Len(ScriptMasks)
     /\ buttons = ScriptMasks[script_pos + 1]
  THEN script_pos + 1
  ELSE -1

NextCounterLongOnly(data) == IF LengthOk(data) THEN counter + 1 ELSE counter

\* self.counter += 1, before the length of the packet is looked at
NextCounter(data) == counter + 1

\* ------------------------------------------------- notification_handler
notification_handler(data) ==
  LET c == NextCounter(data)
      buttons == At(data, 1)
      x_nibble == BitAnd(At(data, 3), 15)
      xd == get_x_direction(x_nibble)
      ym == IntScale(YOffset(At(data, 4)))
      raised == At(data, 1) = -1 \/ At(data, 3) = -1 \/ At(data, 4) = -1
  IN /\ counter' = c
     /\ delivered' = delivered + 1
     /\ pkt' = data
     /\ IF Eligible(c) /\ LengthOk(data)
        THEN IF raised
             THEN /\ err' = TRUE
                  /\ emitted' = <<>>
                  /\ UNCHANGED <<last_button_state, btn_left, btn_right,
                                 x_direction, x_move, y_move, script_pos,
                                 last_frame_mask>>
             ELSE /\ x_direction' = xd[1]
                  /\ x_move' = xd[2]
                  /\ y_move' = ym
                  /\ emitted' = MotionWrites(xd[2], ym) \o ButtonWrites(buttons)
                  /\ IF Changed(buttons)
                     THEN /\ btn_left' = KeyValue(buttons, 1)
                          /\ btn_right' = KeyValue(buttons, 2)
                          /\ last_button_state' = buttons
                     ELSE UNCHANGED <<btn_left, btn_right, last_button_state>>
                  /\ script_pos' = NextScriptPos(buttons)
                  /\ last_frame_mask' = buttons
                  /\ UNCHANGED err
        ELSE /\ emitted' = <<>>
             /\ UNCHANGED <<last_button_state, btn_left, btn_right,
                            x_direction, x_move, y_move, script_pos, err,
                            last_frame_mask>>

\* ----------------------------------------------------------- cal_handler
cal_handler(data) ==
  IF Len(data) >= MIN_LEN
  THEN /\ y_samples' = Append(y_samples, At(data, 4))
       /\ x_samples' = Append(x_samples, BitAnd(At(data, 3), 15))
  ELSE UNCHANGED calVars

DeliverRecenter(data) ==
  /\ connected
  /\ subscribed # {}
  /\ "cal" \in subscribed => Len(y_samples) < MaxSamples
  /\ IF "steady" \in subscribed THEN notification_handler(data)
     ELSE UNCHANGED steadyVars
  /\ IF "cal" \in subscribed THEN cal_handler(data)
     ELSE UNCHANGED calVars
  /\ y_center' = IF "steady" \in subscribed /\ LengthOk(data)
                 THEN At(data, 4) ELSE y_center
  /\ UNCHANGED <<pc, connected, subscribed, y_deadzone, disconnects, cal_err>>
  /\ UNCHANGED <<toolVars, dashVars>>

\* The transport delivers one packet to the registered callbacks.
Deliver(data) ==
  /\ connected
  /\ subscribed # {}
  /\ "cal" \in subscribed => Len(y_samples) < MaxSamples
  /\ IF "steady" \in subscribed THEN notification_handler(data)
     ELSE UNCHANGED steadyVars
  /\ IF "cal" \in subscribed THEN cal_handler(data)
     ELSE UNCHANGED calVars
  /\ UNCHANGED <<pc, connected, subscribed, y_center, y_deadzone, disconnects,
                 cal_err>>
  /\ UNCHANGED <<toolVars, dashVars>>

Notify == \E data \in Packets : delivered < MaxPackets /\ Deliver(data)

\* ------------------------------------------------------------------ run
StartNotifyKeepOthers(subs, cb) == subs \cup {cb}

\* client.start_notify(INPUT_UUID, cb): the client holds one callback per
\* characteristic, the new one takes the place of the old one
StartNotify(subs, cb) == {cb}

\* client.stop_notify(INPUT_UUID)
StopNotify(subs) == {}

\* finally: disconnect the client, close the device
Finally ==
  /\ pc' = "done"
  /\ connected' = FALSE
  /\ subscribed' = {}

\* connect(): new client, connect, start_notify(notification_handler)
connect ==
  /\ connected' = TRUE
  /\ subscribed' = StartNotify({}, "steady")

\* run: await self.connect(); a failure ends run()
Connect ==
  /\ pc = "start"
  /\ \/ connect /\ pc' = "connected"
     \/ Finally
  /\ UNCHANGED <<counter, last_button_state, y_center, y_deadzone, y_samples,
                 x_samples, btn_left, btn_right, emitted, x_direction, x_move,
                 y_move, pkt, delivered, script_pos, disconnects, err,
                 cal_err, last_frame_mask>>
  /\ UNCHANGED <<toolVars, dashVars>>

\* calibrate_y_axis up to the sleep: start_notify(cal_handler).  On a
\* characteristic that already notifies the call replaces the callback or
\* raises, depending on the backend; on a lost link it raises.
CalStart ==
  /\ pc = "connected"
  /\ y_samples' = <<>>
  /\ x_samples' = <<>>
  /\ \/ /\ connected
        /\ subscribed' = StartNotify(subscribed, "cal")
        /\ pc' = "calibrating"
        /\ UNCHANGED connected
     \/ Finally
  /\ UNCHANGED <<counter, last_button_state, y_center, y_deadzone, btn_left,
                 btn_right, emitted, x_direction, x_move, y_move, pkt,
                 delivered, script_pos, disconnects, err, cal_err,
                 last_frame_mask>>
  /\ UNCHANGED <<toolVars, dashVars>>

MeanBlend(s) == (y_center + Sum(s) \div Len(s)) \div 2

MeanRoundUp(s) == (Sum(s) + Len(s) - 1) \div Len(s)

\* sum(y_samples) // len(y_samples)
Mean(s) == Sum(s) \div Len(s)

HasSamplesAlways(s) == TRUE

\* if y_samples:
HasSamples(s) == s # <<>>

CalFinishSetsDeadzone ==
  /\ pc = "calibrating"
  /\ IF ~connected
     THEN Finally /\ UNCHANGED <<y_center, cal_err>>
     ELSE IF HasSamples(y_samples) /\ Len(y_samples) = 0
     THEN Finally /\ cal_err' = TRUE /\ UNCHANGED y_center
     ELSE /\ y_center' = IF HasSamples(y_samples) THEN Mean(y_samples)
                         ELSE y_center
          /\ subscribed' = StartNotify(StopNotify(subscribed), "steady")
          /\ pc' = "running"
          /\ UNCHANGED <<connected, cal_err>>
  /\ x_samples' = <<>>
  /\ y_deadzone' = IF pc' = "running" /\ y_samples # <<>>
                   THEN LET r == {y_samples[i] : i \in 1..Len(y_samples)}
                            hi == CHOOSE v \in r : \A w \in r : w <= v
                            lo == CHOOSE v \in r : \A w \in r : v <= w
                        IN hi - lo + DEADZONE_MARGIN
                   ELSE y_deadzone
  /\ UNCHANGED <<counter, last_button_state, y_samples,
                 btn_left, btn_right, emitted, x_direction, x_move, y_move,
                 pkt, delivered, script_pos, disconnects, err,
                 last_frame_mask>>
  /\ UNCHANGED <<toolVars, dashVars>>

\* the sleep is over: stop_notify, the statistics,
\* start_notify(notification_handler); on a lost link stop_notify raises,
\* a division by len(y_samples) = 0 raises
CalFinish ==
  /\ pc = "calibrating"
  /\ IF ~connected
     THEN Finally /\ UNCHANGED <<y_center, cal_err>>
     ELSE IF HasSamples(y_samples) /\ Len(y_samples) = 0
     THEN Finally /\ cal_err' = TRUE /\ UNCHANGED y_center
     ELSE /\ y_center' = IF HasSamples(y_samples) THEN Mean(y_samples)
                         ELSE y_center
          /\ subscribed' = StartNotify(StopNotify(subscribed), "steady")
          /\ pc' = "running"
          /\ UNCHANGED <<connected, cal_err>>
  /\ x_samples' = <<>>
  /\ UNCHANGED <<counter, last_button_state, y_deadzone, y_samples,
                 btn_left, btn_right, emitted, x_direction, x_move, y_move,
                 pkt, delivered, script_pos, disconnects, err,
                 last_frame_mask>>
  /\ UNCHANGED <<toolVars, dashVars>>

\* the link drops: the client's subscriptions are gone
Disconnect ==
  /\ connected
  /\ pc \in {"connected", "calibrating", "running"}
  /\ disconnects < MaxDisconnects
  /\ connected' = FALSE
  /\ subscribed' = {}
  /\ disconnects' = disconnects + 1
  /\ UNCHANGED <<pc, counter, last_button_state, y_center, y_deadzone,
                 y_samples, x_samples, btn_left, btn_right, emitted,
                 x_direction, x_move, y_move, pkt, delivered, script_pos, err,
                 cal_err, last_frame_mask>>
  /\ UNCHANGED <<toolVars, dashVars>>

\* while True: sleep(1); if not is_connected: connect()
Reconnect ==
  /\ pc = "running"
  /\ ~connected
  /\ \/ connect /\ UNCHANGED pc
     \/ Finally
  /\ UNCHANGED <<counter, last_button_state, y_center, y_deadzone, y_samples,
                 x_samples, btn_left, btn_right, emitted, x_direction, x_move,
                 y_move, pkt, delivered, script_pos, disconnects, err,
                 cal_err, last_frame_mask>>
  /\ UNCHANGED <<toolVars, dashVars>>

\* the calibration tool is not the program that runs
ToolOff ==
  /\ t_pc = "off"
  /\ max_samples = 0
  /\ x_values = <<>>
  /\ y_values = <<>>
  /\ sample_count = 0
  /\ t_result = <<>>
  /\ t_err = FALSE
  /\ t_pkt = <<>>

\* the dashboard is not the program that runs
DashOff ==
  /\ d_pc = "off"
  /\ current_data = <<>>
  /\ last_data = <<>>
  /\ baseline_data = <<>>
  /\ packet_count = 0
  /\ d_first = <<>>
  /\ d_before = <<>>
  /\ d_refreshes = 0

\* __init__
Init ==
  /\ pc = "start"
  /\ connected = FALSE
  /\ subscribed = {}
  /\ counter = 0
  /\ last_button_state = 0
  /\ y_center = Y_CENTER_INIT
  /\ y_deadzone = Y_DEADZONE_INIT
  /\ y_samples = <<>>
  /\ x_samples = <<>>
  /\ btn_left = 0
  /\ btn_right = 0
  /\ emitted = <<>>
  /\ x_direction = "CENTER"
  /\ x_move = 0
  /\ y_move = 0
  /\ pkt = <<>>
  /\ delivered = 0
  /\ script_pos = 0
  /\ disconnects = 0
  /\ err = FALSE
  /\ cal_err = FALSE
  /\ last_frame_mask = 0
  /\ ToolOff
  /\ DashOff

Next == Notify \/ Connect \/ CalStart \/ CalFinish \/ Disconnect \/ Reconnect

Spec == Init /\ [][Next]_vars

\* ----------------------------------------- specifications for one input
\* The driver right after connect() and calibrate_y_axis(), before the first
\* packet reaches notification_handler; the calibration left the centre c.
InitRunning(c) ==
  /\ pc = "running"
  /\ connected = TRUE
  /\ subscribed = {"steady"}
  /\ counter = 0
  /\ last_button_state = 0
  /\ y_center = c
  /\ y_deadzone = Y_DEADZONE_INIT
  /\ y_samples = IF c = Y_CENTER_INIT THEN <<>> ELSE <<c>>
  /\ x_samples = <<>>
  /\ btn_left = 0
  /\ btn_right = 0
  /\ emitted = <<>>
  /\ x_direction = "CENTER"
  /\ x_move = 0
  /\ y_move = 0
  /\ pkt = <<>>
  /\ delivered = 0
  /\ script_pos = 0
  /\ disconnects = 0
  /\ err = FALSE
  /\ cal_err = FALSE
  /\ last_frame_mask = 0
  /\ ToolOff
  /\ DashOff

\* In these specifications the byte under study takes every value on the
\* frames the handler decodes; the frames in between carry the idle packet.
FramePackets(P) == IF (counter + 1) % DECIMATION = 0 THEN P ELSE {IdlePacket}

InitX == InitRunning(Y_CENTER_INIT)
NotifyX == \E data \in FramePackets(PacketsX) : delivered < MaxPacketsB /\ Deliver(data)
SpecX == InitX /\ [][NotifyX]_vars

InitY == \E c \in CentersY : InitRunning(c)
NotifyY == \E data \in FramePackets(PacketsY) : delivered < MaxPacketsB /\ Deliver(data)
SpecY == InitY /\ [][NotifyY]_vars

InitMask == InitRunning(Y_CENTER_INIT)
NotifyMask == \E data \in FramePackets(PacketsMask) : delivered < MaxPacketsB /\ Deliver(data)
SpecMask == InitMask /\ [][NotifyMask]_vars

InitM == InitRunning(Y_CENTER_INIT)
NotifyM == \E data \in PacketsM : delivered < MaxPacketsM /\ Deliver(data)
SpecM == InitM /\ [][NotifyM]_vars

\* ------------------------------------------------------------- statistics
RECURSIVE Insert(_, _)
Insert(x, s) ==
  IF s = <<>> THEN <<x>>
  ELSE IF x <= Head(s) THEN <<x>> \o s
  ELSE <<Head(s)>> \o Insert(x, Tail(s))

RECURSIVE SortBytes(_)
SortBytes(s) == IF s = <<>> THEN <<>> ELSE Insert(Head(s), SortBytes(Tail(s)))

\* int(statistics.median(s)) of a non-empty sequence of bytes
MedianInt(s) ==
  LET t == SortBytes(s)
      n == Len(t)
  IN IF n % 2 = 1 THEN t[(n + 1) \div 2]
     ELSE (t[n \div 2] + t[n \div 2 + 1]) \div 2

\* ------------------------------------------------- the calibration tool
SeqMin(s) == CHOOSE v \in {s[i] : i \in 1..Len(s)} : \A i \in 1..Len(s) : v <= s[i]
SeqMax(s) == CHOOSE v \in {s[i] : i \in 1..Len(s)} : \A i \in 1..Len(s) : v >= s[i]

\* x_drift = x_max - x_min
Drift(s) == SeqMax(s) - SeqMin(s)

RecommendedDeadzoneYOnly(xs, ys) == Drift(ys) + DEADZONE_MARGIN

\* recommended_deadzone = max(x_drift, y_drift) + 5
RecommendedDeadzone(xs, ys) ==
  (IF Drift(xs) >= Drift(ys) THEN Drift(xs) ELSE Drift(ys)) + DEADZONE_MARGIN

ToolAcceptsAnyLength(data) == sample_count < max_samples

\* if len(data) >= 4 and self.sample_count < self.max_samples
ToolAccepts(data) == Len(data) >= TOOL_MIN_LEN /\ sample_count < max_samples

\* PokeballCalibrator.notification_handler
tool_handler(data) ==
  IF ToolAccepts(data)
  THEN /\ x_values' = Append(x_values, At(data, 2))
       /\ y_values' = Append(y_values, At(data, 3))
       /\ sample_count' = sample_count + 1
  ELSE UNCHANGED <<x_values, y_values, sample_count>>

\* calibrate(): connect() and start_notify; three failed attempts end it
ToolConnect ==
  /\ t_pc = "start"
  /\ t_pc' \in {"collecting", "failed"}
  /\ UNCHANGED <<max_samples, x_values, y_values, sample_count, t_result, t_err,
                 t_pkt>>
  /\ UNCHANGED <<driverVars, dashVars>>

\* the transport delivers one packet to the tool's handler
ToolNotify ==
  /\ t_pc \in {"collecting", "sleeping"}
  /\ \E data \in ToolPackets : tool_handler(data) /\ t_pkt' = data
  /\ UNCHANGED <<t_pc, max_samples, t_result, t_err>>
  /\ UNCHANGED <<driverVars, dashVars>>

ToolBudgetOpen == sample_count < max_samples

\* while self.sample_count < self.max_samples: await asyncio.sleep(0.1)
\* and, once the loop is left, the statistics
ToolPoll ==
  /\ t_pc = "collecting"
  /\ IF ToolBudgetOpen
     THEN /\ t_pc' = "sleeping"
          /\ UNCHANGED <<t_result, t_err>>
     ELSE IF x_values = <<>> \/ y_values = <<>>
     THEN /\ t_pc' = "failed"
          /\ t_err' = TRUE
          /\ UNCHANGED t_result
     ELSE /\ t_pc' = "computed"
          /\ t_result' = <<MedianInt(x_values), MedianInt(y_values),
                           RecommendedDeadzone(x_values, y_values)>>
          /\ UNCHANGED t_err
  /\ UNCHANGED <<max_samples, x_values, y_values, sample_count, t_pkt>>
  /\ UNCHANGED <<driverVars, dashVars>>

\* asyncio.sleep(0.1) is over
ToolWake ==
  /\ t_pc = "sleeping"
  /\ t_pc' = "collecting"
  /\ UNCHANGED <<max_samples, x_values, y_values, sample_count, t_result, t_err,
                 t_pkt>>
  /\ UNCHANGED <<driverVars, dashVars>>

\* the driver is not the program that runs
DriverOff ==
  /\ pc = "off"
  /\ connected = FALSE
  /\ subscribed = {}
  /\ counter = 0
  /\ last_button_state = 0
  /\ y_center = Y_CENTER_INIT
  /\ y_deadzone = Y_DEADZONE_INIT
  /\ y_samples = <<>>
  /\ x_samples = <<>>
  /\ btn_left = 0
  /\ btn_right = 0
  /\ emitted = <<>>
  /\ x_direction = "CENTER"
  /\ x_move = 0
  /\ y_move = 0
  /\ pkt = <<>>
  /\ delivered = 0
  /\ script_pos = 0
  /\ disconnects = 0
  /\ err = FALSE
  /\ cal_err = FALSE
  /\ last_frame_mask = 0

\* PokeballCalibrator.__init__; the source's budget is 500 samples, the model
\* runs the tool with every budget from 1 to MaxBudget
InitTool ==
  /\ DriverOff
  /\ DashOff
  /\ t_pc = "start"
  /\ max_samples \in 1..MaxBudget
  /\ x_values = <<>>
  /\ y_values = <<>>
  /\ sample_count = 0
  /\ t_result = <<>>
  /\ t_err = FALSE
  /\ t_pkt = <<>>

NextTool == ToolConnect \/ ToolNotify \/ ToolPoll \/ ToolWake

SpecTool == InitTool /\ [][NextTool]_vars

\* -------------------------------------------------- pokeball_dashboard
\* a value that may be None: None is <<>>, the packet p is <<p>>
IsNone(v) == v = <<>>

\* bool(v) of an optional packet: None and the empty packet are false
Truthy(v) == v # <<>> /\ v[1] # <<>>

BaselineUnsetFalsy(b) == ~Truthy(b)

\* if self.baseline_data is None:
BaselineUnset(b) == IsNone(b)

\* InteractiveAnalyzer.notification_handler
dash_handler(data) ==
  /\ current_data' = <<data>>
  /\ packet_count' = packet_count + 1
  /\ baseline_data' = IF BaselineUnset(baseline_data) THEN <<data>>
                      ELSE baseline_data
  /\ d_first' = IF packet_count = 0 THEN <<data>> ELSE d_first
  /\ d_before' = current_data

\* run(): connect and start_notify; a failure ends run()
DashConnect ==
  /\ d_pc = "start"
  /\ d_pc' \in {"waiting", "done"}
  /\ UNCHANGED <<current_data, last_data, baseline_data, packet_count,
                 d_first, d_before, d_refreshes>>
  /\ UNCHANGED <<driverVars, toolVars>>

\* the transport delivers one packet while run() sleeps
DashNotify ==
  /\ d_pc \in {"waiting", "display"}
  /\ packet_count < MaxPacketsD
  /\ \E data \in DashPackets : dash_handler(data)
  /\ UNCHANGED <<d_pc, last_data, d_refreshes>>
  /\ UNCHANGED <<driverVars, toolVars>>

\* while self.current_data is None: await asyncio.sleep(0.1)
DashFirst ==
  /\ d_pc = "waiting"
  /\ ~IsNone(current_data)
  /\ d_pc' = "display"
  /\ UNCHANGED <<current_data, last_data, baseline_data, packet_count,
                 d_first, d_before, d_refreshes>>
  /\ UNCHANGED <<driverVars, toolVars>>

\* the interpretations index baseline_data[2..4] when it is not empty
BaselineIndexError ==
  /\ Len(current_data[1]) >= 5
  /\ Truthy(baseline_data)
  /\ Len(baseline_data[1]) < 5

\* one turn of the display loop: display_data(), then the sleep.  Nothing
\* is rendered for an empty current packet; an IndexError ends run() before
\* last_data is assigned.
DashDisplay ==
  /\ d_pc = "display"
  /\ d_refreshes < MaxRefreshes
  /\ d_refreshes' = d_refreshes + 1
  /\ IF ~Truthy(current_data)
     THEN UNCHANGED <<d_pc, last_data>>
     ELSE IF BaselineIndexError
     THEN d_pc' = "done" /\ UNCHANGED last_data
     ELSE last_data' = current_data /\ UNCHANGED d_pc
  /\ UNCHANGED <<current_data, baseline_data, packet_count, d_first, d_before>>
  /\ UNCHANGED <<driverVars, toolVars>>

\* InteractiveAnalyzer.__init__
InitDash ==
  /\ DriverOff
  /\ ToolOff
  /\ d_pc = "start"
  /\ current_data = <<>>
  /\ last_data = <<>>
  /\ baseline_data = <<>>
  /\ packet_count = 0
  /\ d_first = <<>>
  /\ d_before = <<>>
  /\ d_refreshes = 0

NextDash == DashConnect \/ DashNotify \/ DashFirst \/ DashDisplay

SpecDash == InitDash /\ [][NextDash]_vars

\* the driver or the calibration tool runs
InitCal == Init \/ InitTool
NextCal == Next \/ NextTool
SpecCal == InitCal /\ [][NextCal]_vars

\* the timers fire and run() is scheduled: each step of run() and of
\* calibrate() that stays enabled is taken; nothing obliges the device to
\* send a packet
FairCal ==
  /\ WF_vars(Connect) /\ WF_vars(CalStart) /\ WF_vars(CalFinish)
  /\ WF_vars(Reconnect)
  /\ WF_vars(ToolConnect) /\ WF_vars(ToolPoll) /\ WF_vars(ToolWake)
SpecCalLive == SpecCal /\ FairCal

\* ------------------------------------------------------------ properties
\* the last call of notification_handler decoded its packet
Processed == delivered > 0 /\ delivered % 3 = 0 /\ Len(pkt) >= 5

\* this step is a call of notification_handler that decodes its packet
ProcessedStep == delivered' = delivered + 1 /\ delivered' % 3 = 0 /\ Len(pkt') >= 5

IsKey(w) == w[1] = "EV_KEY"
IsRel(w) == w[1] = "EV_REL"
Keys(e) == SelectSeq(e, IsKey)
Rels(e) == SelectSeq(e, IsRel)
Bit0(m) == m % 2
Bit1(m) == (m \div 2) % 2
Left(v) == <<"EV_KEY", "BTN_LEFT", v>>
Right(v) == <<"EV_KEY", "BTN_RIGHT", v>>

\* C1: on every decoded frame the X direction is a function of the low nibble
\* of packet[3] alone: 0..3 -> LEFT, -x_speed; 4..7 -> CENTER, 0;
\* 8..15 -> RIGHT, +x_speed; every nibble gets exactly one direction.
C1_ClassifyXTotal ==
  Processed =>
    LET n == pkt[4] % 16
    IN /\ x_direction \in {"LEFT", "CENTER", "RIGHT"}
       /\ n \in 0..3 => x_direction = "LEFT" /\ x_move = -20
       /\ n \in 4..7 => x_direction = "CENTER" /\ x_move = 0
       /\ n \in 8..15 => x_direction = "RIGHT" /\ x_move = 20

C1_Witness ==
  Processed /\ pkt[4] = 241 /\ x_direction = "LEFT" /\ x_move = -20

\* C2: the Y velocity of a decoded frame is 0 inside the deadzone
\* (|yRaw - centre| < deadzone) and otherwise (yRaw - centre) * 2/5 truncated
\* toward zero; an offset of exactly the deadzone is not clamped; with centre
\* 118 and deadzone 15: 118 -> 0, 130 -> 0, 140 -> 8, 90 -> -11.
C2_YVelocity ==
  Processed =>
    LET o == pkt[5] - y_center
        inside == (o < y_deadzone) /\ (-o < y_deadzone)
    IN /\ inside => y_move = 0
       /\ (~inside /\ o >= 0) => (5 * y_move <= 2 * o /\ 2 * o < 5 * y_move + 5)
       /\ (~inside /\ o < 0) => (5 * y_move >= 2 * o /\ 2 * o > 5 * y_move - 5)
       /\ (o = y_deadzone \/ -o = y_deadzone) => y_move # 0
       /\ (y_center = 118 /\ y_deadzone = 15) =>
            /\ pkt[5] = 118 => y_move = 0
            /\ pkt[5] = 130 => y_move = 0
            /\ pkt[5] = 140 => y_move = 8
            /\ pkt[5] = 90 => y_move = -11

C2_Witness ==
  Processed /\ y_center = 118 /\ y_deadzone = 15 /\ pkt[5] = 90 /\ y_move = -11

\* C3: the k-th packet given to the steady-state handler writes to the device
\* or changes the previous button mask only if k is a multiple of 3.
C3_Decimation ==
  [][(delivered' = delivered + 1
      /\ (emitted' # <<>> \/ last_button_state' # last_button_state))
     => delivered' % 3 = 0]_vars

C3_Witness == delivered = 9 /\ emitted # <<>> /\ counter = 9

\* C4 as claimed: on a decoded frame a button is written only if its own bit
\* differs from the previous mask; for the processed masks 0,1,1,3,3,0 the
\* writes are PRIMARY press alone, SECONDARY press alone, both releases.
C4_PerBitEmission ==
  /\ [][ProcessedStep =>
          /\ (\E i \in 1..Len(emitted') : emitted'[i][2] = "BTN_LEFT")
               => Bit0(pkt'[2]) # Bit0(last_button_state)
          /\ (\E i \in 1..Len(emitted') : emitted'[i][2] = "BTN_RIGHT")
               => Bit1(pkt'[2]) # Bit1(last_button_state)]_vars
  /\ [](Processed =>
          /\ script_pos \in {1, 3, 5} => Keys(emitted) = <<>>
          /\ script_pos = 2 => Keys(emitted) = <<Left(1)>>
          /\ script_pos = 4 => Keys(emitted) = <<Right(1)>>
          /\ script_pos = 6 => Keys(emitted) = <<Left(0), Right(0)>>)

\* C4 amended: on a decoded frame buttons are written only if the mask
\* differs from the previous mask, and then the current value of both buttons
\* is written; for the processed masks 0,1,1,3,3,0 there are exactly three
\* groups: (PRIMARY 1, SECONDARY 0), (PRIMARY 1, SECONDARY 1), (PRIMARY 0,
\* SECONDARY 0).
C4_MaskChangeEmission ==
  /\ [][ProcessedStep =>
          /\ Keys(emitted') # <<>> => pkt'[2] # last_button_state
          /\ Keys(emitted') # <<>> =>
               Keys(emitted') = <<Left(Bit0(pkt'[2])), Right(Bit1(pkt'[2]))>>]_vars
  /\ [](Processed =>
          /\ script_pos \in {1, 3, 5} => Keys(emitted) = <<>>
          /\ script_pos = 2 => Keys(emitted) = <<Left(1), Right(0)>>
          /\ script_pos = 4 => Keys(emitted) = <<Left(1), Right(1)>>
          /\ script_pos = 6 => Keys(emitted) = <<Left(0), Right(0)>>)

C4_Witness ==
  Processed /\ script_pos = 6 /\ delivered = 18
  /\ Keys(emitted) = <<Left(0), Right(0)>>

\* C5: a decoded frame whose mask equals the previous mask writes no button
\* and leaves the previous mask as it is, for every mask 0..255.
C5_HeldMaskSilent ==
  [][(ProcessedStep /\ pkt'[2] = last_button_state)
     => /\ Keys(emitted') = <<>>
        /\ last_button_state' = last_button_state
        /\ btn_left' = btn_left
        /\ btn_right' = btn_right]_vars

C5_Witness ==
  Processed /\ delivered = 9 /\ pkt[2] = 255 /\ last_button_state = 255
  /\ emitted = <<>> /\ btn_left = 1 /\ btn_right = 1

\* C6: a reconnect resets the previous button mask to 0.
C6_ReconnectResetsMask ==
  [][(pc = "running" /\ ~connected /\ connected') => last_button_state' = 0]_vars

C8_ShortPacketIgnored ==
  [][(delivered' = delivered + 1 /\ Len(pkt') < 5)
     => /\ emitted' = <<>>
        /\ err' = FALSE
        /\ last_button_state' = last_button_state
        /\ btn_left' = btn_left
        /\ btn_right' = btn_right
        /\ y_center' = y_center
        /\ y_deadzone' = y_deadzone]_vars

C8_Witness ==
  /\ delivered > 0 /\ delivered % 3 = 0 /\ pkt = <<0, 3, 0, 9>>
  /\ emitted = <<>> /\ err = FALSE /\ last_button_state = 1

\* C9: a decoded frame writes a motion group iff x_move or y_move is not 0;
\* the group holds REL_X = x_move when x_move is not 0 and REL_Y = y_move
\* when y_move is not 0, followed by a sync; no motion write carries 0.
C9_MotionIffNonZero ==
  Processed =>
    LET rel == Rels(emitted)
    IN /\ (rel # <<>>) <=> (x_move # 0 \/ y_move # 0)
       /\ \A i \in 1..Len(rel) : rel[i][3] # 0
       /\ x_move # 0 => rel[1] = <<"EV_REL", "REL_X", x_move>>
       /\ y_move # 0 => rel[Len(rel)] = <<"EV_REL", "REL_Y", y_move>>
       /\ Len(rel) = (IF x_move # 0 THEN 1 ELSE 0) + (IF y_move # 0 THEN 1 ELSE 0)
       /\ rel # <<>> => /\ \A i \in 1..Len(rel) : emitted[i] = rel[i]
                        /\ emitted[Len(rel) + 1] = <<"EV_SYN", "SYN_REPORT", 0>>

C9_Witness ==
  /\ Processed /\ x_move = 0 /\ y_move = -11
  /\ Rels(emitted) = <<<<"EV_REL", "REL_Y", -11>>>>

\* C10 as claimed: after a calibration over a non-empty window, y_center is
\* the median of the window's y values.
C10_CenterIsMedian ==
  (pc = "running" /\ y_samples # <<>>) => y_center = MedianInt(y_samples)

\* C10 amended: after a calibration over a non-empty window, y_center is the
\* integer mean of the window's y values, floor(sum / count).
C10_CenterIsFloorMean ==
  (pc = "running" /\ y_samples # <<>>) =>
    /\ y_center * Len(y_samples) <= Sum(y_samples)
    /\ Sum(y_samples) < (y_center + 1) * Len(y_samples)

C10_Witness ==
  pc = "running" /\ y_samples = <<90, 90, 140>> /\ y_center = 106

Count(s, P(_)) == Cardinality({i \in 1..Len(s) : P(s[i])})

\* the two middle values of s in sorted order (the same value when Len(s) is
\* odd), found by counting the values below and above
LowerMiddle(s) ==
  CHOOSE v \in {s[i] : i \in 1..Len(s)} :
    /\ Count(s, LAMBDA w : w < v) <= (Len(s) - 1) \div 2
    /\ Count(s, LAMBDA w : w > v) <= Len(s) \div 2
UpperMiddle(s) ==
  CHOOSE v \in {s[i] : i \in 1..Len(s)} :
    /\ Count(s, LAMBDA w : w < v) <= Len(s) \div 2
    /\ Count(s, LAMBDA w : w > v) <= (Len(s) - 1) \div 2

\* C11: the tool's center_y is the integer median of the y values (the mean
\* of the two middle values, truncated, for an even window) and its deadzone
\* is the larger of the x drift and the y drift plus 5; the y values
\* 100,102,98,104,96 with x drift 0 give center_y = 100 and deadzone = 13.
C11_ToolProfile ==
  t_pc = "computed" =>
    LET n == Len(y_values)
        dz == t_result[3]
    IN /\ n >= 1 /\ Len(x_values) = n
       /\ t_result[2] = (LowerMiddle(y_values) + UpperMiddle(y_values)) \div 2
       /\ \A i, j \in 1..n : /\ y_values[i] - y_values[j] + 5 <= dz
                             /\ x_values[i] - x_values[j] + 5 <= dz
       /\ \E i, j \in 1..n : \/ y_values[i] - y_values[j] + 5 = dz
                             \/ x_values[i] - x_values[j] + 5 = dz
       /\ (y_values = <<100, 102, 98, 104, 96>>
           /\ \A i \in 1..n : x_values[i] = x_values[1])
          => (t_result[2] = 100 /\ dz = 13)

C11_Witness ==
  /\ t_pc = "computed"
  /\ y_values = <<100, 102, 98, 104, 96>>
  /\ x_values = <<50, 50, 50, 50, 50>>
  /\ t_result = <<50, 100, 13>>

\* C12: the profile a calibration leaves is a function of the multiset of
\* its samples alone: computed again from the sorted window, whatever the
\* counter, the button mask and the earlier centre were, it is the profile
\* that was stored (driver: centre; tool: centres and deadzone).
C12_ProfileOfMultiset ==
  /\ (pc = "running" /\ y_samples # <<>>) =>
       y_center = Sum(SortBytes(y_samples)) \div Len(y_samples)
  /\ t_pc = "computed" =>
       LET xs == SortBytes(x_values)
           ys == SortBytes(y_values)
           n == Len(ys)
           dx == xs[n] - xs[1]
           dy == ys[n] - ys[1]
       IN t_result = <<(xs[(n + 1) \div 2] + xs[n \div 2 + 1]) \div 2,
                       (ys[(n + 1) \div 2] + ys[n \div 2 + 1]) \div 2,
                       (IF dx >= dy THEN dx ELSE dy) + 5>>

C12_Witness ==
  /\ pc = "running" /\ y_samples = <<140, 90, 90>> /\ y_center = 106
  /\ counter = 3 /\ last_button_state = 1

\* C13: no packet given to notification_handler changes y_center or
\* y_deadzone; they change only in the step that ends a calibration run.
C13_ProfileReadOnly ==
  [][/\ delivered' = delivered + 1
        => (y_center' = y_center /\ y_deadzone' = y_deadzone)
     /\ (y_center' # y_center \/ y_deadzone' # y_deadzone)
        => (pc = "calibrating" /\ pc' = "running")]_vars

C13_Witness ==
  /\ pc = "running" /\ y_center = 106 /\ y_deadzone = 15
  /\ Processed /\ pkt[5] = 140 /\ y_move = 13

\* C14: no statistic is computed on an empty window.  The driver changes
\* y_center only from a window with at least one sample; a calibration that
\* ends with an empty window keeps y_center and raises nothing; the tool
\* reaches its statistics only with at least one sample of each axis.
C14_NoEmptyWindow ==
  [][/\ (pc = "calibrating" /\ pc' = "running" /\ y_samples = <<>>)
          => y_center' = y_center
     /\ y_center' # y_center => Len(y_samples) >= 1
     /\ ~cal_err'
     /\ t_pc' = "computed" => (Len(x_values') >= 1 /\ Len(y_values') >= 1)
     /\ ~t_err']_vars

C14_Witness ==
  /\ pc = "running" /\ connected /\ subscribed = {"steady"}
  /\ y_samples = <<>> /\ y_center = 118 /\ ~cal_err

\* C15: after every decoded frame last_button_state is byte 1 of that
\* packet, all eight bits of it.
C15_MaskStored == Processed => last_button_state = pkt[2]

C15_Witness ==
  /\ Processed /\ pkt[2] = 4 /\ last_button_state = 4
  /\ Keys(emitted) = <<Left(0), Right(0)>>

\* C16: a decoded frame whose mask differs from the previous mask ends its
\* writes with BTN_LEFT = bit 0, BTN_RIGHT = bit 1 and one SYN_REPORT, in this
\* order, and writes no other key; the device holds these two values.
C16_BothButtonsInOneGroup ==
  [][(ProcessedStep /\ pkt'[2] # last_button_state) =>
       LET e == emitted'
           n == Len(e)
           m == pkt'[2]
       IN /\ n >= 3
          /\ e[n - 2] = <<"EV_KEY", "BTN_LEFT", IF m % 2 = 1 THEN 1 ELSE 0>>
          /\ e[n - 1] = <<"EV_KEY", "BTN_RIGHT", IF (m \div 2) % 2 = 1 THEN 1 ELSE 0>>
          /\ e[n] = <<"EV_SYN", "SYN_REPORT", 0>>
          /\ \A i \in 1..(n - 3) : e[i][1] # "EV_KEY"
          /\ btn_left' = m % 2
          /\ btn_right' = (m \div 2) % 2]_vars

C16_Witness ==
  /\ Processed /\ pkt[2] = 254 /\ last_button_state = 254
  /\ emitted = <<Left(0), Right(1), SYN>>

\* C17: a call that is not a decoded frame writes nothing and keeps the
\* previous mask; a decoded frame writes the two buttons exactly when its mask
\* differs from the mask of the decoded frame before it (0 before the first).
C17_ClicksFromProcessedMasks ==
  /\ [](last_button_state = last_frame_mask)
  /\ [][/\ (delivered' = delivered + 1 /\ ~ProcessedStep)
             => (emitted' = <<>> /\ last_button_state' = last_button_state)
        /\ ProcessedStep
             => Keys(emitted') =
                  IF pkt'[2] # last_frame_mask
                  THEN <<Left(Bit0(pkt'[2])), Right(Bit1(pkt'[2]))>>
                  ELSE <<>>]_vars

C17_Witness ==
  /\ delivered = 2 /\ pkt = <<0, 1, 0, 3, 118>> /\ last_button_state = 0
  /\ emitted = <<>> /\ btn_left = 0

C19_DeltaVsPrecedingPacket ==
  [][(d_refreshes' = d_refreshes + 1 /\ Truthy(current_data))
       => last_data = d_before]_vars

\* C20: every collection ends and the statistics are reached: the driver
\* leaves its window, the tool leaves its sampling loop with a result.
C20_CollectionTerminates ==
  /\ (pc = "calibrating") ~> (pc \in {"running", "done"})
  /\ (t_pc \in {"collecting", "sleeping"}) ~> (t_pc \in {"computed", "failed"})

\* the driver's half of C20
C20_DriverWindowEnds == (pc = "calibrating") ~> (pc \in {"running", "done"})

\* C21: the tool's window is bounded and consistent: sample_count never
\* exceeds max_samples, both lists have sample_count entries, a step that adds
\* a sample delivered a packet of at least 4 bytes and adds exactly bytes 2
\* and 3 of it, and a full window is never changed again.
C21_ToolWindowBounded ==
  /\ [](/\ sample_count <= max_samples
        /\ Len(x_values) = sample_count
        /\ Len(y_values) = sample_count)
  /\ [][/\ <<x_values, y_values, sample_count>>' # <<x_values, y_values, sample_count>>
             => /\ Len(t_pkt') >= 4
                /\ sample_count' = sample_count + 1
                /\ x_values' = x_values \o <<t_pkt'[3]>>
                /\ y_values' = y_values \o <<t_pkt'[4]>>
        /\ sample_count = max_samples
             => <<x_values, y_values, sample_count>>' = <<x_values, y_values, sample_count>>]_vars

C21_Witness ==
  /\ max_samples = 2 /\ sample_count = 2 /\ t_pc = "sleeping"
  /\ x_values = <<50, 50>> /\ y_values = <<100, 102>>
  /\ t_pkt = <<0, 0, 57, 101>>

\* C22: the value the virtual device holds for BTN_LEFT is bit 0x01 of
\* last_button_state and the value it holds for BTN_RIGHT is bit 0x02 of it,
\* in every state.
C22_DeviceAgreesWithMask ==
  /\ btn_left = last_button_state % 2
  /\ btn_right = (last_button_state \div 2) % 2

C22_Witness ==
  /\ Processed /\ delivered = 6 /\ pkt[2] = 6 /\ last_button_state = 6
  /\ btn_left = 0 /\ btn_right = 1

\* C23: counter is the number of packets given to notification_handler since
\* construction: every call adds exactly 1, short packets included, no other
\* step (calibration, link loss, reconnect) changes it, and a short packet
\* in a slot that is a multiple of 3 leaves the slot without any write.
C23_CounterCountsEveryPacket ==
  /\ [](counter = delivered)
  /\ [](delivered > 0 /\ delivered % 3 = 0 /\ Len(pkt) < 5 => emitted = <<>>)
  /\ [][/\ delivered' # delivered
             => (delivered' = delivered + 1 /\ counter' = counter + 1)
        /\ (pc' # pc \/ connected' # connected \/ subscribed' # subscribed)
             => counter' = counter]_vars

C23_Witness ==
  /\ pc = "running" /\ connected /\ disconnects = 1 /\ y_samples # <<>>
  /\ counter = 6 /\ pkt = <<0, 3, 0, 9>> /\ emitted = <<>>
  /\ last_button_state = 0

\* C24: y_deadzone is 15 in every state of the driver, whatever was
\* delivered, calibrated or reconnected.
C24_DeadzoneFixed == pc # "off" => y_deadzone = 15

C24_Witness ==
  /\ pc = "running" /\ connected /\ disconnects = 1
  /\ y_samples = <<140, 90, 118>> /\ y_center = 116 /\ y_deadzone = 15
  /\ Processed /\ pkt[5] = 140 /\ y_move = 9

====
